---- MODULE Spec2Model ----
\* Model of the email automation pipeline of src/main.py and of the
\* language-model client of src/llm_calls.py:
\*   EmailAutomationSystem.process_email
\*     -> EmailProcessor.validate_email_format
\*     -> EmailProcessor.classify_email     (client.get_classification)
\*     -> EmailProcessor.generate_response  (client.get_response)
\*     -> the response handler              (mock service functions)
\* Python strings are sequences of one-character strings, so that the
\* regular expression, lower/strip/rstrip and the timestamp parser are
\* computed character by character.
EXTENDS Integers, Sequences, FiniteSets, TLC

VARIABLES
    client,             \* class of processor.client: "OpenAIClient" or another BaseClient
    valid_categories,   \* EmailProcessor.valid_categories
    required_fields,    \* EmailProcessor.required_fields
    response_handlers,  \* EmailAutomationSystem.response_handlers
    email,              \* the argument of the current process_email call
    pc,                 \* position inside process_email
    result,             \* the local dict `result` of process_email
    classification,     \* the local `classification` of process_email
    response,           \* the local `response` of process_email
    valid,              \* outcome of validate_email_format in this call
    cls_answer,         \* what client.get_classification returned in this call
    resp_answer,        \* what client.get_response returned in this call
    calls,              \* the calls made so far by this process_email call, in order
    processed,          \* number of process_email calls started
    fixed,              \* history: one fixed input (email, client answers)
    fixed_result,       \* history: the result first returned for `fixed`
    fixed_runs          \* history: how many calls with `fixed` have returned

vars == <<client, valid_categories, required_fields, response_handlers, email, pc,
          result, classification, response, valid, cls_answer, resp_answer, calls,
          processed, fixed, fixed_result, fixed_runs>>

\* Number of process_email calls a behaviour makes.
MaxEmails == 2

----------------------------------------------------------------------------
\* Python values: a missing dict key, None, a non-string object, a string.

Absent == [t |-> "absent", s |-> <<>>]
None == [t |-> "none", s |-> <<>>]
IntVal == [t |-> "int", s |-> <<>>]
Raise == [t |-> "raise", s |-> <<>>]
Str(s) == [t |-> "str", s |-> s]

Digit == {"0", "1", "2", "3", "4", "5", "6", "7", "8", "9"}
DigitChars == <<"0", "1", "2", "3", "4", "5", "6", "7", "8", "9">>
Whitespace == {" ", "\n", "\t", "\r"}
UpperChars == <<"A", "B", "C", "D", "E", "F", "G", "H", "I", "J", "K", "L", "M",
                "N", "O", "P", "Q", "R", "S", "T", "U", "V", "W", "X", "Y", "Z">>
LowerChars == <<"a", "b", "c", "d", "e", "f", "g", "h", "i", "j", "k", "l", "m",
                "n", "o", "p", "q", "r", "s", "t", "u", "v", "w", "x", "y", "z">>

DigitVal(c) == (CHOOSE i \in 1..10 : DigitChars[i] = c) - 1

IsDigits(s) == \A i \in 1..Len(s) : s[i] \in Digit

RECURSIVE Num(_)
Num(s) == IF s = <<>> THEN 0
          ELSE 10 * Num(SubSeq(s, 1, Len(s) - 1)) + DigitVal(s[Len(s)])

\* str.lower()
LowerChar(c) == IF \E i \in 1..26 : UpperChars[i] = c
                THEN LowerChars[CHOOSE i \in 1..26 : UpperChars[i] = c]
                ELSE c
lower(s) == [i \in 1..Len(s) |-> LowerChar(s[i])]

\* str.lstrip(chars), str.rstrip(chars), str.strip()
RECURSIVE lstrip(_, _)
lstrip(s, chars) == IF s # <<>> /\ s[1] \in chars THEN lstrip(Tail(s), chars) ELSE s
RECURSIVE rstrip(_, _)
rstrip(s, chars) == IF s # <<>> /\ s[Len(s)] \in chars
                    THEN rstrip(SubSeq(s, 1, Len(s) - 1), chars)
                    ELSE s
strip(s) == rstrip(lstrip(s, Whitespace), Whitespace)

\* str.replace(old, new) for a one-character old: every occurrence is replaced
RECURSIVE replace(_, _, _)
replace(s, old, new) ==
    IF s = <<>> THEN <<>>
    ELSE (IF s[1] = old THEN new ELSE <<s[1]>>) \o replace(Tail(s), old, new)

\* str.split() is empty exactly when the string has no non-whitespace character
SplitIsEmpty(s) == \A i \in 1..Len(s) : s[i] \in Whitespace

----------------------------------------------------------------------------
\* re.match(r'^\d{3}$', s): three digits, and `$` also matches just before a
\* newline that ends the string.
ReMatchId(s) ==
    /\ Len(s) \in {3, 4}
    /\ IsDigits(SubSeq(s, 1, 3))
    /\ Len(s) = 4 => s[4] = "\n"

\* datetime.fromisoformat(s), for the forms every Python from 3.7 on reads
\* alike and without fractional seconds: YYYY-MM-DD[*HH[:MM[:SS]][(+|-)HH:MM]];
\* TRUE when it parses, FALSE when it raises ValueError.
IsLeap(y) == (y % 4 = 0 /\ y % 100 # 0) \/ y % 400 = 0
DaysInMonth(y, m) == IF m = 2 THEN (IF IsLeap(y) THEN 29 ELSE 28)
                     ELSE IF m \in {4, 6, 9, 11} THEN 30 ELSE 31

ParseDate(s) ==
    /\ Len(s) = 10
    /\ IsDigits(SubSeq(s, 1, 4)) /\ s[5] = "-"
    /\ IsDigits(SubSeq(s, 6, 7)) /\ s[8] = "-"
    /\ IsDigits(SubSeq(s, 9, 10))
    /\ Num(SubSeq(s, 1, 4)) >= 1
    /\ Num(SubSeq(s, 6, 7)) \in 1..12
    /\ Num(SubSeq(s, 9, 10)) \in 1..DaysInMonth(Num(SubSeq(s, 1, 4)), Num(SubSeq(s, 6, 7)))

ParseHHMMSS(s) ==
    /\ Len(s) \in {2, 5, 8}
    /\ IsDigits(SubSeq(s, 1, 2)) /\ Num(SubSeq(s, 1, 2)) \in 0..23
    /\ Len(s) >= 5 => /\ s[3] = ":"
                      /\ IsDigits(SubSeq(s, 4, 5)) /\ Num(SubSeq(s, 4, 5)) \in 0..59
    /\ Len(s) = 8 => /\ s[6] = ":"
                     /\ IsDigits(SubSeq(s, 7, 8)) /\ Num(SubSeq(s, 7, 8)) \in 0..59

ParseTz(s) ==
    /\ Len(s) = 6
    /\ IsDigits(SubSeq(s, 2, 3)) /\ Num(SubSeq(s, 2, 3)) \in 0..23
    /\ s[4] = ":"
    /\ IsDigits(SubSeq(s, 5, 6)) /\ Num(SubSeq(s, 5, 6)) \in 0..59

ParseTime(s) ==
    LET signs == {i \in 1..Len(s) : s[i] \in {"+", "-"}}
    IN  IF signs = {} THEN ParseHHMMSS(s)
        ELSE LET p == CHOOSE i \in signs : \A j \in signs : i <= j
             IN  ParseHHMMSS(SubSeq(s, 1, p - 1)) /\ ParseTz(SubSeq(s, p, Len(s)))

fromisoformat(s) ==
    /\ Len(s) = 10 \/ Len(s) > 11
    /\ ParseDate(SubSeq(s, 1, 10))
    /\ Len(s) > 11 => ParseTime(SubSeq(s, 12, Len(s)))

----------------------------------------------------------------------------
\* The category names, as Python strings.

complaint == <<"c", "o", "m", "p", "l", "a", "i", "n", "t">>
inquiry == <<"i", "n", "q", "u", "i", "r", "y">>
feedback == <<"f", "e", "e", "d", "b", "a", "c", "k">>
support_request ==
    <<"s", "u", "p", "p", "o", "r", "t", "_", "r", "e", "q", "u", "e", "s", "t">>
other == <<"o", "t", "h", "e", "r">>
spam == <<"s", "p", "a", "m">>

\* EmailProcessor.__init__: valid_categories and required_fields
ValidCategories == {complaint, inquiry, feedback, support_request, other}
RequiredFields == {"id", "from", "subject", "body", "timestamp"}

\* generate_response: the keys of the local dict response_prompts
ResponsePrompts == {complaint, inquiry, feedback, support_request, other, spam}

\* A handler table that registers the generic handler for complaints.
ResponseHandlersMisrouted ==
    [c \in ValidCategories |->
        CASE c = complaint -> "_handle_other"
          [] c = inquiry -> "_handle_inquiry"
          [] c = feedback -> "_handle_feedback"
          [] c = support_request -> "_handle_support_request"
          [] c = other -> "_handle_other"]

\* EmailAutomationSystem.__init__: response_handlers
ResponseHandlers ==
    [c \in ValidCategories |->
        CASE c = complaint -> "_handle_complaint"
          [] c = inquiry -> "_handle_inquiry"
          [] c = feedback -> "_handle_feedback"
          [] c = support_request -> "_handle_support_request"
          [] c = other -> "_handle_other"]

----------------------------------------------------------------------------
\* The inputs: the emails a caller may pass, and what the language model
\* may answer.

IdValues == {Absent, None, IntVal, Str(<<"1", "2", "3">>), Str(<<"1", "2", "3", "4">>),
             Str(<<"1", "2", "a">>), Str(<<"1", "2", "3", "\n">>)}
FromValues == {Absent, Str(<<"a", "@", "b">>)}
SubjectValues == {None, IntVal, Str(<<"H", "i">>)}
BodyValues == {IntVal, Str(<<" ", "\n">>), Str(<<"h", "i">>)}
TimestampValues ==
    {IntVal,
     Str(<<"2", "0", "2", "4", "-", "0", "1", "-", "1", "5", "T", "1", "0", ":", "3", "0", ":", "0", "0", "Z">>),
     Str(<<"2", "0", "2", "4", "-", "0", "1", "-", "1", "5">>),
     Str(<<"2", "0", "2", "4", "-", "1", "3", "-", "1", "5", "T", "1", "0", ":", "3", "0", ":", "0", "0", "Z">>)}

Emails ==
    {[id |-> i, from |-> f, subject |-> s, body |-> b, timestamp |-> ts] :
        i \in IdValues, f \in FromValues, s \in SubjectValues,
        b \in BodyValues, ts \in TimestampValues}

\* message.content of a chat completion: None or a string
ClassificationContents ==
    {None,
     Str(<<"C", "o", "m", "p", "l", "a", "i", "n", "t", ".">>),
     Str(<<" ", "i", "n", "q", "u", "i", "r", "y", "\n">>),
     Str(<<"f", "e", "e", "d", "b", "a", "c", "k">>),
     Str(<<"S", "u", "p", "p", "o", "r", "t", "_", "R", "e", "q", "u", "e", "s", "t">>),
     Str(<<"O", "t", "h", "e", "r", ".", ".">>),
     Str(<<"s", "p", "a", "m">>),
     Str(<<"c", "o", "m", "p", "l", "a", "i", "n", "t", " ", ".">>)}
ResponseContents == {None, Str(<<>>), Str(<<"o", "k">>)}

----------------------------------------------------------------------------
\* EmailProcessor

\* validate_email_format: "True", "False", or "raise" when an exception
\* leaves the method (re.match on a non-string, .split of a non-string).
validate_email_format(fields, e) ==
    IF \E f \in fields : e[f] \in {Absent, None} THEN "False"
    ELSE IF e["id"].t # "str" THEN "raise"
    ELSE IF ~ReMatchId(e["id"].s) THEN "False"
    ELSE IF e["body"].t # "str" THEN "raise"
    ELSE IF SplitIsEmpty(e["body"].s) THEN "False"
    ELSE IF e["timestamp"].t # "str" THEN "False"
    ELSE IF ~fromisoformat(replace(e["timestamp"].s, "Z", <<"+", "0", "0", ":", "0", "0">>))
         THEN "False"
    ELSE "True"

\* get_email_subject_and_body: the concatenation raises TypeError unless
\* subject and body are strings (the text itself only feeds the prompt).
get_email_subject_and_body(e) ==
    IF e["subject"].t = "str" /\ e["body"].t = "str" THEN "ok" ELSE "raise"

\* OpenAIClient.get_classification, given what the API call did: Raise or
\* the message content. Every exception is caught and gives None.
get_classification(api) ==
    IF api.t # "str" THEN None
    ELSE Str(rstrip(strip(lower(api.s)), {"."}))

\* OpenAIClient.get_response, given what the API call did.
get_response(api) ==
    IF api = Raise THEN None ELSE api

\* What the client's get_classification / get_response may hand back:
\* OpenAIClient never raises; another BaseClient may return any
\* Optional[str] or raise.
ClassificationAnswers(cl) ==
    IF cl = "OpenAIClient"
    THEN {get_classification(a) : a \in ClassificationContents \cup {Raise}}
    ELSE ClassificationContents \cup {Raise}
ResponseAnswers(cl) ==
    IF cl = "OpenAIClient"
    THEN {get_response(a) : a \in ResponseContents \cup {Raise}}
    ELSE ResponseContents \cup {Raise}

\* A classify_email that hands the client's answer on without checking it.
classify_email_unchecked(categories, answer) ==
    IF answer.t = "str" THEN answer ELSE None

\* classify_email, after the client answered: the category or None
classify_email(categories, answer) ==
    IF answer.t = "str" /\ answer.s \in categories THEN answer ELSE None

\* `x or "other"` (line 195)
OrOther(c) == IF c = None \/ c = Str(<<>>) THEN Str(other) ELSE c

\* A check `response is None` in place of `not response`.
NotResponseNoneOnly(r) == r = None

\* `not response` (line 202)
NotResponse(r) == r = None \/ r = Str(<<>>)

----------------------------------------------------------------------------
\* EmailAutomationSystem

Call(fn, ctx) == [fn |-> fn, ctx |-> ctx]

\* The _handle_* methods: the mock service calls each makes, in order.
HandlerCalls(h) ==
    CASE h = "_handle_complaint" ->
            <<Call("create_urgent_ticket", "email"), Call("send_complaint_response", "response")>>
      [] h = "_handle_inquiry" ->
            <<Call("send_standard_response", "response")>>
      [] h = "_handle_feedback" ->
            <<Call("log_customer_feedback", "email"), Call("send_standard_response", "response")>>
      [] h = "_handle_support_request" ->
            <<Call("create_support_ticket", "email"), Call("send_standard_response", "response")>>
      [] h = "_handle_other" ->
            <<Call("create_support_ticket", "email"), Call("send_standard_response", "response")>>

\* self.response_handlers.get(classification, self._handle_other)
HandlerFor(handlers, c) ==
    IF c.t = "str" /\ c.s \in DOMAIN handlers THEN handlers[c.s] ELSE "_handle_other"

NoEmail == [id |-> Absent, from |-> Absent, subject |-> Absent, body |-> Absent,
            timestamp |-> Absent]
NoResult == [email_id |-> Absent, success |-> FALSE, classification |-> Absent,
             response_sent |-> FALSE]

Idle == pc \in {"idle", "returned", "escaped"}

\* The table rows a call leaves alone.
Tables == <<client, valid_categories, required_fields, response_handlers>>


\* The inputs whose result the history variables follow: a valid email
\* answered with an unknown category, a valid email whose response fails,
\* and an email with a malformed id.
GoodEmail == [id |-> Str(<<"1", "2", "3">>), from |-> Str(<<"a", "@", "b">>),
              subject |-> Str(<<"H", "i">>), body |-> Str(<<"h", "i">>),
              timestamp |-> Str(<<"2", "0", "2", "4", "-", "0", "1", "-", "1", "5">>)]
FixedInputs ==
    {[email |-> GoodEmail, cls |-> Str(spam), resp |-> Str(<<"o", "k">>)],
     [email |-> GoodEmail, cls |-> Str(feedback), resp |-> None],
     [email |-> [GoodEmail EXCEPT !.id = Str(<<"1", "2", "a">>)], cls |-> Absent, resp |-> Absent]}

\* The history once the current call returns r: the first result of the
\* fixed input is remembered and its returns are counted.
IsFixed == fixed = [email |-> email, cls |-> cls_answer, resp |-> resp_answer]
Remember(r) ==
    /\ fixed_result' = IF IsFixed /\ fixed_result = NoResult THEN r ELSE fixed_result
    /\ fixed_runs' = IF IsFixed THEN fixed_runs + 1 ELSE fixed_runs

Init ==
    /\ client \in {"OpenAIClient", "BaseClient"}
    /\ valid_categories = ValidCategories
    /\ required_fields = RequiredFields
    /\ response_handlers = ResponseHandlers
    /\ email = NoEmail
    /\ pc = "idle"
    /\ result = NoResult
    /\ classification = Absent
    /\ response = Absent
    /\ valid = "none"
    /\ cls_answer = Absent
    /\ resp_answer = Absent
    /\ calls = <<>>
    /\ processed = 0
    /\ fixed \in FixedInputs
    /\ fixed_result = NoResult
    /\ fixed_runs = 0

\* process_email, lines 184-189: the result dict is built from email['id']
\* before the try block, so a missing 'id' raises KeyError out of the call.
ProcessEmail ==
    /\ Idle
    /\ processed < MaxEmails
    /\ \E e \in Emails :
        /\ email' = e
        /\ IF e["id"] = Absent
           THEN /\ pc' = "escaped"
                /\ result' = NoResult
           ELSE /\ pc' = "validate"
                /\ result' = [email_id |-> e["id"], success |-> FALSE,
                              classification |-> None, response_sent |-> FALSE]
    /\ processed' = processed + 1
    /\ classification' = Absent
    /\ response' = Absent
    /\ valid' = "none"
    /\ cls_answer' = Absent
    /\ resp_answer' = Absent
    /\ calls' = <<>>
    /\ UNCHANGED <<Tables, fixed, fixed_result, fixed_runs>>

\* A process_email that only logs an invalid email and goes on.
InvalidFallsThrough == "classify"

\* Where process_email goes when validate_email_format returned False
\* (line 194: return result).
InvalidNext == "returned"

\* process_email, lines 192-194
Validate ==
    /\ pc = "validate"
    /\ LET v == validate_email_format(required_fields, email)
       IN  /\ valid' = v
           /\ calls' = Append(calls, Call("validate_email_format", v))
           /\ pc' = CASE v = "True" -> "classify"
                      [] v = "False" -> InvalidNext
                      [] OTHER -> "except"
           /\ IF v = "False" /\ InvalidNext = "returned"
              THEN Remember(result)
              ELSE UNCHANGED <<fixed_result, fixed_runs>>
    /\ UNCHANGED <<Tables, email, result, classification, response, cls_answer,
                   resp_answer, processed, fixed>>

\* A Classify whose classify_email adds every answer it sees to
\* valid_categories.
ClassifyLearning ==
    /\ pc = "classify"
    /\ IF get_email_subject_and_body(email) = "raise"
       THEN /\ pc' = "except"
            /\ UNCHANGED <<classification, result, cls_answer, calls, valid_categories>>
       ELSE \E a \in ClassificationAnswers(client) :
            /\ cls_answer' = a
            /\ calls' = Append(calls, Call("get_classification", "prompt"))
            /\ IF a = Raise
               THEN /\ pc' = "except"
                    /\ UNCHANGED <<classification, result, valid_categories>>
               ELSE /\ classification' = OrOther(classify_email(valid_categories, a))
                    /\ result' = [result EXCEPT !.classification = classification']
                    /\ valid_categories' = IF a.t = "str"
                                           THEN valid_categories \cup {a.s}
                                           ELSE valid_categories
                    /\ pc' = "generate"
    /\ UNCHANGED <<client, required_fields, response_handlers, email, response, valid,
                   resp_answer, processed, fixed, fixed_result, fixed_runs>>

\* process_email, lines 195-197, with classify_email (lines 115-125)
Classify ==
    /\ pc = "classify"
    /\ IF get_email_subject_and_body(email) = "raise"
       THEN /\ pc' = "except"
            /\ UNCHANGED <<classification, result, cls_answer, calls>>
       ELSE \E a \in ClassificationAnswers(client) :
            /\ cls_answer' = a
            /\ calls' = Append(calls, Call("get_classification", "prompt"))
            /\ IF a = Raise
               THEN /\ pc' = "except"
                    /\ UNCHANGED <<classification, result>>
               ELSE /\ classification' = OrOther(classify_email(valid_categories, a))
                    /\ result' = [result EXCEPT !.classification = classification']
                    /\ pc' = "generate"
    /\ UNCHANGED <<Tables, email, response, valid, resp_answer, processed, fixed,
                   fixed_result, fixed_runs>>

\* A process_email that asks again when the response is None or empty.
NoResponseRetry == "generate"

\* Where process_email goes when the response is None or empty (line 203
\* raises ValueError into the except block).
NoResponseNext == "except"

\* process_email, lines 200-203, with generate_response (lines 137-160)
Generate ==
    /\ pc = "generate"
    /\ IF classification.s \notin ResponsePrompts
       THEN /\ pc' = "except"
            /\ UNCHANGED <<response, resp_answer, calls>>
       ELSE \E a \in ResponseAnswers(client) :
            /\ resp_answer' = a
            /\ calls' = Append(calls, Call("get_response", "prompt"))
            /\ IF a = Raise
               THEN /\ pc' = "except"
                    /\ UNCHANGED response
               ELSE /\ response' = a
                    /\ pc' = IF NotResponse(a) THEN NoResponseNext ELSE "dispatch"
    /\ UNCHANGED <<Tables, email, result, classification, valid, cls_answer,
                   processed, fixed, fixed_result, fixed_runs>>

\* An update that sets "success" alone.
ResultUpdateSuccessOnly(r) == [r EXCEPT !.success = TRUE]

\* result.update({"success": True, "response_sent": True}) (line 206)
ResultUpdate(r) == [r EXCEPT !.success = TRUE, !.response_sent = TRUE]

\* process_email, lines 205-206 and 211: the handler runs, then the result
\* is updated and returned.
Dispatch ==
    /\ pc = "dispatch"
    /\ LET h == HandlerFor(response_handlers, classification)
       IN  calls' = calls \o <<Call(h, "handler")>> \o HandlerCalls(h)
    /\ result' = ResultUpdate(result)
    /\ pc' = "returned"
    /\ Remember(result')
    /\ UNCHANGED <<Tables, email, classification, response, valid, cls_answer,
                   resp_answer, processed, fixed>>

\* An except block that clears the classification.
ExceptResultReset(r) == [r EXCEPT !.classification = None]

\* What the except block does to the result (lines 207-209: nothing).
ExceptResult(r) == r

\* process_email, lines 207-211: log, create a support ticket with the
\* error, return the result.
Except ==
    /\ pc = "except"
    /\ calls' = Append(calls, Call("create_support_ticket", "error"))
    /\ result' = ExceptResult(result)
    /\ pc' = "returned"
    /\ Remember(result')
    /\ UNCHANGED <<Tables, email, classification, response, valid, cls_answer,
                   resp_answer, processed, fixed>>

Next ==
    \/ ProcessEmail
    \/ Validate
    \/ Classify
    \/ Generate
    \/ Dispatch
    \/ Except

Spec == Init /\ [][Next]_vars

----------------------------------------------------------------------------
\* Reading the call log of the current process_email call.

Positions(fn) == {i \in 1..Len(calls) : calls[i].fn = fn}
Count(fn) == Cardinality(Positions(fn))
Called(fn) == Positions(fn) # {}
SendFns == {"send_complaint_response", "send_standard_response"}
HandlerFns == {"_handle_complaint", "_handle_inquiry", "_handle_feedback",
               "_handle_support_request", "_handle_other"}
Sends == {i \in 1..Len(calls) : calls[i].fn \in SendFns}
ErrorTickets == {i \in 1..Len(calls) : calls[i] = Call("create_support_ticket", "error")}
Categories == {Str(c) : c \in {complaint, inquiry, feedback, support_request, other}}
Returned == pc = "returned"
\* get_response handed back a non-empty string
GotResponse == resp_answer.t = "str" /\ resp_answer.s # <<>>

----------------------------------------------------------------------------
\* C1: the steps of a call happen in the order validate -> classify ->
\* generate response -> dispatch: get_classification is called only after
\* validate_email_format returned True, get_response only after the
\* classification is finished, and a handler or a send_* function only after
\* get_response returned a non-empty response.
C1_PipelineOrder ==
    /\ \A i \in Positions("get_classification") :
          \E j \in 1..(i - 1) : calls[j] = Call("validate_email_format", "True")
    /\ \A i \in Positions("get_response") :
          /\ \E j \in 1..(i - 1) : calls[j].fn = "get_classification"
          /\ cls_answer \notin {Absent, Raise}
          /\ classification \in Categories
          /\ result.classification = classification
    /\ \A i \in 1..Len(calls) :
          calls[i].fn \in HandlerFns \cup SendFns =>
             /\ \E j \in 1..(i - 1) : calls[j].fn = "get_response"
             /\ GotResponse
C1_Witness ==
    /\ Returned /\ result.success
    /\ Called("get_classification") /\ Called("get_response")
    /\ Called("send_complaint_response")

\* C2: process_email returns a result for every email and no exception
\* ever leaves it.
C2_NeverEscapes == pc # "escaped"

\* C3: classify_email returns a member of the five categories or None for
\* every answer of the client; the classification of every result is None
\* or one of the five; generate_response is only ever entered with one of
\* the five (never with 'spam' or a category without a prompt).
C3_FixedCategories ==
    /\ \A a \in ClassificationAnswers(client) \ {Raise} :
          classify_email(valid_categories, a) \in Categories \cup {None}
    /\ pc \notin {"idle", "escaped"} => result.classification \in Categories \cup {None}
    /\ (pc \in {"generate", "dispatch"} \/ Called("get_response")) =>
          /\ classification \in Categories
          /\ classification.s \in ResponsePrompts \ {spam}
C3_Witness ==
    /\ Returned /\ result.success
    /\ cls_answer = Str(spam)
    /\ result.classification = Str(other)

\* C4: within one call get_classification and get_response are each called
\* at most once, also when they fail or return None, and the email is
\* validated (processed) once.
C4_NoRetry ==
    /\ Count("validate_email_format") <= 1
    /\ Count("get_classification") <= 1
    /\ Count("get_response") <= 1
C4_Witness ==
    /\ Returned /\ ~result.success
    /\ resp_answer = None
    /\ Count("get_classification") = 1 /\ Count("get_response") = 1

C6_Expected(c) ==
    CASE c = Str(complaint) ->
            <<Call("_handle_complaint", "handler"), Call("create_urgent_ticket", "email"),
              Call("send_complaint_response", "response")>>
      [] c = Str(inquiry) ->
            <<Call("_handle_inquiry", "handler"), Call("send_standard_response", "response")>>
      [] c = Str(feedback) ->
            <<Call("_handle_feedback", "handler"), Call("log_customer_feedback", "email"),
              Call("send_standard_response", "response")>>
      [] c = Str(support_request) ->
            <<Call("_handle_support_request", "handler"),
              Call("create_support_ticket", "email"),
              Call("send_standard_response", "response")>>
      [] c = Str(other) ->
            <<Call("_handle_other", "handler"), Call("create_support_ticket", "email"),
              Call("send_standard_response", "response")>>
      [] OTHER -> <<>>
C6_DispatchByClassification ==
    (Returned /\ Called("get_response") /\ GotResponse) =>
        /\ calls = <<Call("validate_email_format", "True"), Call("get_classification", "prompt"),
                     Call("get_response", "prompt")>> \o C6_Expected(result.classification)
        /\ Cardinality({i \in 1..Len(calls) : calls[i].fn \in HandlerFns}) = 1
        /\ (cls_answer = None \/ cls_answer \notin Categories) =>
              /\ result.classification = Str(other)
              /\ Called("_handle_other")
C6_Witness ==
    /\ Returned /\ GotResponse
    /\ result.classification = Str(complaint)
    /\ Called("create_urgent_ticket")

\* C7: when validate_email_format returned False, the call made no client
\* call, ran no handler, created no ticket and sent nothing, and it returns
\* success False, classification None, response_sent False under the
\* email's id.
C7_InvalidStops ==
    valid = "False" =>
        /\ Returned
        /\ calls = <<Call("validate_email_format", "False")>>
        /\ result = [email_id |-> email["id"], success |-> FALSE,
                     classification |-> None, response_sent |-> FALSE]
C7_Witness ==
    /\ Returned /\ valid = "False"
    /\ email["id"] = Str(<<"1", "2", "a">>)

\* C8: when a call fails after validation began (validation, classification
\* or generation raised, or the response was None or empty), it has created
\* exactly one support ticket carrying the error, as its last call, has sent
\* no response, and returns success False and response_sent False with the
\* classification assigned before the failure.
C8_Failed ==
    /\ Returned
    /\ \/ valid = "raise"
       \/ /\ valid = "True"
          /\ \/ get_email_subject_and_body(email) = "raise"
             \/ cls_answer = Raise
             \/ resp_answer = Raise
             \/ NotResponse(resp_answer)
C8_FailureTicket ==
    C8_Failed =>
        /\ Cardinality(ErrorTickets) = 1
        /\ calls[Len(calls)] = Call("create_support_ticket", "error")
        /\ Count("create_support_ticket") = 1
        /\ Sends = {}
        /\ ~result.success /\ ~result.response_sent
        /\ result.classification = IF classification = Absent THEN None ELSE classification
        /\ result.email_id = email["id"]
C8_Witness ==
    /\ C8_Failed
    /\ resp_answer = Str(<<>>)
    /\ result.classification = Str(support_request)

\* C9: validate_email_format returns True exactly when the five fields are
\* present and not None, the id is three digits and nothing else, the body
\* has a non-whitespace character and the timestamp parses.
C9_Claimed(e) ==
    /\ \A f \in RequiredFields : e[f] \notin {Absent, None}
    /\ e["id"].t = "str" /\ Len(e["id"].s) = 3 /\ IsDigits(e["id"].s)
    /\ e["body"].t = "str" /\ ~SplitIsEmpty(e["body"].s)
    /\ e["timestamp"].t = "str"
    /\ fromisoformat(replace(e["timestamp"].s, "Z", <<"+", "0", "0", ":", "0", "0">>))
C9_ValidExactly ==
    valid # "none" => (valid = "True" <=> C9_Claimed(email))

\* C10: in every returned result success equals response_sent, both are
\* True exactly when one send function was called in the call, a successful
\* result has a classification, and a call never sends twice.
C10_SuccessMeansSent ==
    /\ Cardinality(Sends) <= 1
    /\ Returned =>
          /\ result.success = result.response_sent
          /\ result.success <=> Cardinality(Sends) = 1
          /\ result.success => result.classification \in Categories
C10_Witness ==
    /\ Returned /\ result.success /\ result.response_sent
    /\ Cardinality(Sends) = 1
    /\ Called("send_standard_response")

====
